---- MODULE Spec2Model ----
(***************************************************************************)
(* The asyncio chat relay of server/main.py as a state machine.            *)
(*                                                                         *)
(* The server is one event loop: a FIFO queue of ready tasks (main, one    *)
(* handle_client per accepted socket, one broadcast per message read).     *)
(* A task runs from one `await aio.sleep(0)` to the next without being     *)
(* interrupted; `await readAll(...)` never suspends (readAll has no await  *)
(* that yields).  The peers and the kernel act concurrently with it.       *)
(***************************************************************************)
EXTENDS Integers, Sequences, FiniteSets, TLC

\* Number of peers that connect in the workloads where peers also disconnect;
\* the workload of well-behaved peers has one more.
NConn == 3

\* Free space of a socket's send buffer, in bytes, when nothing is queued.
SndBuf == 20

Conns == 1..(NConn + 1)

VARIABLES
    clients,    \* server/main.py:13  the registry, a list of sockets
    sock,       \* per connection: the server side socket object
    peer,       \* per connection: what the remote end did (up / fin / rst)
    wire,       \* per connection: segments the peer sent, not yet recv'd
    sndfree,    \* per connection: room left in the send buffer
    sent,       \* per connection: what each sendall call wrote on the socket
    ready,      \* the event loop's FIFO of ready tasks
    hpc,        \* per connection: where its handle_client task stands
    bc,         \* the broadcast tasks created so far, in creation order
    mainpc,     \* "run" while main()'s accept loop is alive
    world       \* the workload: the peers, what they send, which never leave

vars == <<clients, sock, peer, wire, sndfree, sent, ready, hpc, bc, mainpc,
          world>>

----------------------------------------------------------------------------
\* Bytes are sequences of one-character strings.

EOF == <<"<", "E", "O", "F", ">">>

endswith(data, suffix) ==
    /\ Len(data) >= Len(suffix)
    /\ SubSeq(data, Len(data) - Len(suffix) + 1, Len(data)) = suffix

Hello == <<"h", "e", "l", "l", "o">>

PortDigit == <<"1", "2", "3", "4", "5", "6">>

\* socket.getpeername(): the (host, port) pair of the remote end.
getpeername(c) == [host |-> "h", port |-> c]

\* str() of the address tuple, encoded.
AddrBytes(addr) == <<"(", addr.host, ",", PortDigit[addr.port], ")">>

\* A relay that forgets the attribution prefix.
FrameBare(sender, message) == message

\* line 79: str(sender.getpeername()).encode() + b": " + message
Frame(sender, message) ==
    AddrBytes(getpeername(sender)) \o <<":", " ">> \o message

----------------------------------------------------------------------------
\* What the peers send: per connection a sequence of segments; one recv
\* returns one segment.

Silent == [c \in Conns |-> <<>>]

\* A workload: n peers connect, peer c sends script[c], and the peers in
\* `stable` never close or reset their connection.  The two-peer workload
\* sends a frame cut inside its delimiter, two frames in one segment, and
\* bytes that no delimiter follows.
Workloads ==
    { [n |-> NConn, stable |-> {},
       script |-> [Silent EXCEPT ![1] = <<Hello \o EOF>>]],
      [n |-> NConn, stable |-> {},
       script |-> [Silent EXCEPT ![1] = <<<<"a">> \o EOF, <<"b">> \o EOF>>]],
      [n |-> NConn, stable |-> {},
       script |-> [Silent EXCEPT ![1] = <<<<"a">> \o EOF>>,
                                 ![2] = <<<<"b">> \o EOF>>]],
      [n |-> NConn, stable |-> {1, 2},
       script |-> [Silent EXCEPT ![1] = <<<<"a">> \o EOF, <<"b">> \o EOF>>,
                                 ![2] = <<<<"c">> \o EOF>>]],
      [n |-> 2, stable |-> {2},
       script |-> [Silent EXCEPT ![1] = << <<"a", "<", "E">>,
                                           <<"O", "F", ">">>,
                                           <<"b">> \o EOF \o <<"c">> \o EOF,
                                           <<"d">> >>]],
      [n |-> NConn + 1, stable |-> Conns,
       script |-> [Silent EXCEPT ![1] = <<<<"a">> \o EOF, <<"b">> \o EOF,
                                          <<"c">> \o EOF>>]] }

MainTask == [k |-> "main", i |-> 0]
HandlerTask(c) == [k |-> "handle_client", i |-> c]
BroadcastTask(i) == [k |-> "broadcast", i |-> i]

Init ==
    /\ clients = <<>>
    /\ sock = [c \in Conns |-> "unconnected"]
    /\ peer = [c \in Conns |-> "up"]
    /\ \E w \in Workloads :
         /\ wire = w.script
         /\ world = w
    /\ sndfree = [c \in Conns |-> SndBuf]
    /\ sent = [c \in Conns |-> <<>>]
    /\ ready = <<MainTask>>
    /\ hpc = [c \in Conns |-> "none"]
    /\ bc = <<>>
    /\ mainpc = "run"

----------------------------------------------------------------------------
\* Python list helpers.

InList(list, x) == \E j \in 1..Len(list) : list[j] = x

\* list.remove(x): drops the first occurrence (the caller has checked, or
\* models, the ValueError of an absent x).
remove(list, x) ==
    LET j == CHOOSE n \in 1..Len(list) :
                 list[n] = x /\ \A m \in 1..(n - 1) : list[m] # x
    IN  SubSeq(list, 1, j - 1) \o SubSeq(list, j + 1, Len(list))

----------------------------------------------------------------------------
\* readAll (lines 15-58).  segs: what the peer's end still holds for us,
\* avail: how many of these segments have arrived when the loop runs,
\* st: the peer's state.  Result: data (none = the Python None), conn, and
\* the segments left unread.

\* A read path that takes "nothing to read yet" for the peer's close.
RECURSIVE readAllBlockCloses(_, _, _, _)
readAllBlockCloses(segs, data, avail, st) ==
    IF avail > 0 /\ segs # <<>>
    THEN LET d == data \o Head(segs)
         IN  IF endswith(d, EOF)
             THEN [data |-> d, none |-> FALSE, conn |-> TRUE, rest |-> Tail(segs)]
             ELSE readAllBlockCloses(Tail(segs), d, avail - 1, st)
    ELSE CASE st = "rst" ->
                [data |-> <<>>, none |-> TRUE, conn |-> FALSE, rest |-> segs]
           [] OTHER ->
                [data |-> data, none |-> FALSE, conn |-> FALSE, rest |-> segs]

RECURSIVE readAll(_, _, _, _)
readAll(segs, data, avail, st) ==
    IF avail > 0 /\ segs # <<>>
    THEN LET d == data \o Head(segs)    \* chunk = recv(1024); data += chunk
         IN  IF endswith(d, EOF)
             THEN [data |-> d, none |-> FALSE, conn |-> TRUE, rest |-> Tail(segs)]
             ELSE readAll(Tail(segs), d, avail - 1, st)
    ELSE CASE st = "rst" ->             \* except Exception: return None, False
                [data |-> <<>>, none |-> TRUE, conn |-> FALSE, rest |-> segs]
           [] st = "fin" /\ segs = <<>> ->   \* chunk == b'': return data, False
                [data |-> data, none |-> FALSE, conn |-> FALSE, rest |-> segs]
           [] OTHER ->                  \* BlockingIOError: return None, True
                [data |-> <<>>, none |-> TRUE, conn |-> TRUE, rest |-> segs]

\* How many of the pending segments the kernel may hold when readAll runs:
\* after the peer's FIN all of them, otherwise any number.  After a reset the
\* kernel may still hand over what it had queued before raising, or nothing.
Arrived(c) ==
    IF peer[c] = "fin" THEN {Len(wire[c])} ELSE 0..Len(wire[c])

----------------------------------------------------------------------------
\* The peers and the network.

\* Connections are named in the order in which they reach the listen queue.
PeerConnect(c) ==
    /\ mainpc = "run"
    /\ sock[c] = "unconnected"
    /\ c <= world.n
    /\ \A d \in Conns : d < c => sock[d] # "unconnected"
    /\ sock' = [sock EXCEPT ![c] = "pending"]
    /\ UNCHANGED <<clients, peer, wire, sndfree, sent, ready, hpc, bc, mainpc, world>>

\* The peer closes in an orderly way: after the bytes on the wire, recv
\* returns b''.
PeerFin(c) ==
    /\ mainpc = "run"
    /\ sock[c] = "open"
    /\ peer[c] = "up"
    /\ c \notin world.stable
    /\ peer' = [peer EXCEPT ![c] = "fin"]
    /\ UNCHANGED <<clients, sock, wire, sndfree, sent, ready, hpc, bc, mainpc, world>>

\* The connection is reset: recv and sendall raise from now on.
PeerReset(c) ==
    /\ mainpc = "run"
    /\ sock[c] = "open"
    /\ peer[c] \in {"up", "fin"}
    /\ c \notin world.stable
    /\ peer' = [peer EXCEPT ![c] = "rst"]
    /\ UNCHANGED <<clients, sock, wire, sndfree, sent, ready, hpc, bc, mainpc, world>>

\* The peer reads what the server sent it: the send buffer drains.
PeerRead(c) ==
    /\ mainpc = "run"
    /\ sock[c] = "open"
    /\ peer[c] = "up"
    /\ sndfree[c] < SndBuf
    /\ sndfree' = [sndfree EXCEPT ![c] = SndBuf]
    /\ UNCHANGED <<clients, sock, peer, wire, sent, ready, hpc, bc, mainpc, world>>

----------------------------------------------------------------------------
\* main (lines 150-165).

Pending == {c \in Conns : sock[c] = "pending"}

\* The listen queue, oldest first.
Backlog ==
    LET lo == CHOOSE c \in Pending : \A d \in Pending : c <= d
    IN  [n \in 1..Cardinality(Pending) |-> lo + n - 1]

\* accept() until BlockingIOError, one handle_client task per socket, then
\* await aio.sleep(0).
main ==
    /\ ready # <<>> /\ Head(ready) = MainTask
    /\ sock' = [c \in Conns |-> IF c \in Pending THEN "open" ELSE sock[c]]
    /\ hpc' = [c \in Conns |-> IF c \in Pending THEN "new" ELSE hpc[c]]
    /\ ready' = Tail(ready)
                  \o [n \in 1..Cardinality(Pending) |-> HandlerTask(Backlog[n])]
                  \o <<MainTask>>
    /\ UNCHANGED <<clients, peer, wire, sndfree, sent, bc, mainpc, world>>

\* accept() raises something else after n accepted sockets: `break`, main
\* returns and aio.run() cancels every task.
mainAcceptError ==
    /\ ready # <<>> /\ Head(ready) = MainTask
    /\ \E n \in 0..Cardinality(Pending) :
         /\ sock' = [c \in Conns |->
                       IF c \in Pending /\ \E m \in 1..n : Backlog[m] = c
                       THEN "open" ELSE sock[c]]
         /\ hpc' = [c \in Conns |->
                      IF c \in Pending /\ \E m \in 1..n : Backlog[m] = c
                      THEN "new" ELSE hpc[c]]
    /\ mainpc' = "stopped"
    /\ ready' = <<>>
    /\ UNCHANGED <<clients, peer, wire, sndfree, sent, bc, world>>

----------------------------------------------------------------------------
\* handle_client (lines 102-132).

\* line 124: the task object of aio.create_task(broadcast(data, client_socket))
NewBroadcast(data, c) ==
    [sender |-> c, message |-> data, frame |-> <<>>, reg |-> <<>>,
     snap |-> <<>>, idx |-> 0, pc |-> "new", err |-> "none", log |-> <<>>]

\* A handler that registers a socket the acceptor registered already.
RegisterAgain(list, c) == Append(Append(list, c), c)

\* line 115 registers the socket on the task's first step.
Register(list, c) == Append(list, c)

\* A turn that yields before it creates the broadcast task.
YieldBeforeCreate(spawn, i, c) ==
    <<HandlerTask(c)>> \o (IF spawn THEN <<BroadcastTask(i)>> ELSE <<>>)

\* Lines 124-125: the broadcast task, when one is created, is queued before
\* the handler re-queues itself in sleep(0).
AfterTurn(spawn, i, c) ==
    (IF spawn THEN <<BroadcastTask(i)>> ELSE <<>>) \o <<HandlerTask(c)>>

\* One turn of the while loop, lines 117-125, up to the sleep(0); on the
\* first step preceded by lines 113-116.  readAll catches what recv raises and
\* create_task does not raise, so the except clause of lines 126-128 has no
\* transition.
handle_client(c) ==
    /\ ready # <<>> /\ Head(ready) = HandlerTask(c)
    /\ hpc[c] \in {"new", "loop"}
    /\ \E avail \in Arrived(c) :
         LET r == readAll(wire[c], <<>>, avail, peer[c])
             spawn == ~r.none /\ r.data # <<>>          \* if data:
         IN  /\ clients' = IF hpc[c] = "new" THEN Register(clients, c) ELSE clients
             /\ wire' = [wire EXCEPT ![c] = r.rest]
             /\ hpc' = [hpc EXCEPT ![c] = IF r.conn THEN "loop" ELSE "closing"]
             /\ bc' = IF spawn THEN Append(bc, NewBroadcast(r.data, c)) ELSE bc
             /\ ready' = Tail(ready) \o AfterTurn(spawn, Len(bc) + 1, c)
    /\ UNCHANGED <<sock, peer, sndfree, sent, mainpc, world>>

\* A teardown that closes the socket and leaves it registered.
KeepRegistered(list, c) == list

\* line 131
TeardownRegistry(list, c) == remove(list, c)

\* line 132
TeardownSocket(s, c) == [s EXCEPT ![c] = "closed"]

\* Lines 129-132, reached when the loop ends: clients.remove raises ValueError
\* when the socket is absent, and the task ends there, before close().
handle_client_teardown(c) ==
    /\ ready # <<>> /\ Head(ready) = HandlerTask(c)
    /\ hpc[c] = "closing"
    /\ IF InList(clients, c)
       THEN /\ clients' = TeardownRegistry(clients, c)
            /\ sock' = TeardownSocket(sock, c)
            /\ hpc' = [hpc EXCEPT ![c] = "done"]
       ELSE /\ hpc' = [hpc EXCEPT ![c] = "ValueError"]
            /\ UNCHANGED <<clients, sock>>
    /\ ready' = Tail(ready)
    /\ UNCHANGED <<peer, wire, sndfree, sent, bc, mainpc, world>>

----------------------------------------------------------------------------
\* broadcast (lines 60-100).

\* client.getpeername() returns, rather than raises OSError: never on a socket
\* the server closed (EBADF); on a reset connection the platform decides
\* (ENOTCONN or the remembered address), which `gpn` stands for.
PeerNameOk(c, gpn) ==
    /\ sock[c] # "closed"
    /\ peer[c] = "rst" => gpn

\* client.sendall(message) on a non-blocking socket, with `free` bytes of room:
\* "ok", "block" (BlockingIOError after a partial write), "fail"
\* (BrokenPipeError / ConnectionResetError) or "ebadf" (OSError on a socket
\* object that was closed).
sendall(c, message, free) ==
    CASE sock[c] = "closed" -> "ebadf"
      [] peer[c] = "rst" -> "fail"
      [] Len(message) <= free -> "ok"
      [] OTHER -> "block"

\* A loop without the test of lines 85-86.
SkipNobody(client, sender) == FALSE

\* lines 85-86
SkipSender(client, sender) == client = sender

\* line 82: the for loop runs over a copy of the list
Snapshot(list) == list

\* A failure path whose filter is inverted: it keeps the failed connection
\* and drops the others.
KeepOnlyFailed(list, client) == SelectSeq(list, LAMBDA x : x = client)

\* lines 93 and 100
FailureRegistry(list, client) == remove(list, client)

\* What the task wrote on the socket: the whole frame, or, before a
\* BlockingIOError, the part that fitted.
Written(log, bytes) == IF bytes = <<>> THEN log ELSE Append(log, bytes)

\* The for loop of lines 82-100 from position idx of the snapshot, up to the
\* next suspension (await aio.sleep(0), line 96) or the task's end.  t holds
\* the task record b and the shared state the loop reads and writes.
RECURSIVE BroadcastLoop(_, _, _)
BroadcastLoop(t, idx, gpn) ==
    IF idx > Len(t.b.snap)
    THEN [t EXCEPT !.b.pc = "done", !.b.idx = idx]
    ELSE
      LET client == t.b.snap[idx]
          res == sendall(client, t.b.frame, t.sndfree[client])
          logged == [t EXCEPT !.b.log = Append(@, [to |-> client, res |-> res])]
      IN  IF SkipSender(client, t.b.sender)
          THEN BroadcastLoop(t, idx + 1, gpn)
          ELSE CASE res = "ok" ->
                      BroadcastLoop(
                          [logged EXCEPT
                              !.sent[client] = Append(@, t.b.frame),
                              !.sndfree[client] = @ - Len(t.b.frame)],
                          idx + 1, gpn)
                 [] res = "block" ->
                      [logged EXCEPT
                          !.sent[client] =
                              Written(@, SubSeq(t.b.frame, 1, t.sndfree[client])),
                          !.sndfree[client] = 0,
                          !.b.pc = "suspended",
                          !.b.idx = idx + 1]
                 [] OTHER ->
                      \* except BrokenPipeError / except Exception: the print
                      \* calls client.getpeername(), then clients.remove(client)
                      IF ~PeerNameOk(client, gpn)
                      THEN [logged EXCEPT !.b.pc = "aborted", !.b.err = "OSError",
                                          !.b.idx = idx]
                      ELSE IF ~InList(t.clients, client)
                      THEN [logged EXCEPT !.b.pc = "aborted", !.b.err = "ValueError",
                                          !.b.idx = idx]
                      ELSE BroadcastLoop(
                               [logged EXCEPT
                                   !.clients = FailureRegistry(@, client)],
                               idx + 1, gpn)

\* A broadcast that builds the prefix before it counts the registry.
BroadcastStartPrefixFirst(t, gpn) ==
    LET t0 == [t EXCEPT !.b.reg = t.clients]
    IN  IF ~PeerNameOk(t.b.sender, gpn)
        THEN [t0 EXCEPT !.b.pc = "aborted", !.b.err = "OSError"]
        ELSE IF Len(t.clients) < 2
        THEN [t0 EXCEPT !.b.pc = "done"]
        ELSE BroadcastLoop(
                 [t0 EXCEPT !.b.frame = Frame(t.b.sender, t.b.message),
                            !.b.snap = Snapshot(t.clients)],
                 1, gpn)

\* lines 75-79, then the loop
BroadcastStart(t, gpn) ==
    LET t0 == [t EXCEPT !.b.reg = t.clients]
    IN  IF Len(t.clients) < 2
        THEN [t0 EXCEPT !.b.pc = "done"]
        ELSE IF ~PeerNameOk(t.b.sender, gpn)
        THEN [t0 EXCEPT !.b.pc = "aborted", !.b.err = "OSError"]
        ELSE BroadcastLoop(
                 [t0 EXCEPT !.b.frame = Frame(t.b.sender, t.b.message),
                            !.b.snap = Snapshot(t.clients)],
                 1, gpn)

\* One step of broadcast task i: from its start or from the sleep(0) it is
\* suspended in, to the next sleep(0) or its end.
broadcast(i) ==
    /\ ready # <<>> /\ Head(ready) = BroadcastTask(i)
    /\ \E gpn \in BOOLEAN :
         LET t == [b |-> bc[i], clients |-> clients, sent |-> sent,
                   sndfree |-> sndfree]
             r == IF bc[i].pc = "new" THEN BroadcastStart(t, gpn)
                  ELSE BroadcastLoop(t, bc[i].idx, gpn)
         IN  /\ bc' = [bc EXCEPT ![i] = r.b]
             /\ clients' = r.clients
             /\ sent' = r.sent
             /\ sndfree' = r.sndfree
             /\ ready' = Tail(ready)
                           \o (IF r.b.pc = "suspended" THEN <<BroadcastTask(i)>>
                               ELSE <<>>)
    /\ UNCHANGED <<sock, peer, wire, hpc, mainpc, world>>

----------------------------------------------------------------------------

Next ==
    \/ \E c \in Conns : PeerConnect(c)
    \/ \E c \in Conns : PeerFin(c)
    \/ \E c \in Conns : PeerReset(c)
    \/ \E c \in Conns : PeerRead(c)
    \/ main
    \/ mainAcceptError
    \/ \E c \in Conns : handle_client(c)
    \/ \E c \in Conns : handle_client_teardown(c)
    \/ \E i \in 1..Len(bc) : broadcast(i)

Spec == Init /\ [][Next]_vars

----------------------------------------------------------------------------
\* Vocabulary of the properties.

Tasks == 1..Len(bc)

\* The connections broadcast task i called sendall on.
Addressed(i) == {bc[i].log[j].to : j \in 1..Len(bc[i].log)}

Members(list) == {list[j] : j \in 1..Len(list)}

\* The positions at which connection r was sent exactly `bytes` by one sendall.
Received(r, bytes) == {p \in 1..Len(sent[r]) : sent[r][p] = bytes}

HelloFrame ==
    <<"(", "h", ",", "1", ")", ":", " ", "h", "e", "l", "l", "o",
      "<", "E", "O", "F", ">">>

----------------------------------------------------------------------------
\* C1: a broadcast never calls sendall on the socket of its own sender, in
\* any state any interleaving of the tasks reaches.
C1_NoSendToOrigin ==
    \A i \in Tasks : bc[i].sender \notin Addressed(i)

\* A broadcast that ran over a snapshot holding its sender and sent to
\* somebody else.
C1_Witness ==
    \E i \in Tasks :
        /\ bc[i].pc = "done"
        /\ bc[i].sender \in Members(bc[i].snap)
        /\ \E j \in 1..Len(bc[i].log) : bc[i].log[j].res = "ok"

\* C2 (as claimed): a broadcast that ran to its end without an error called
\* sendall for every connection that was registered when it started, its
\* origin excepted, whatever the registry held.
C2_SendsToAllRegistered ==
    \A i \in Tasks :
        bc[i].pc = "done" =>
            (Members(bc[i].reg) \ {bc[i].sender}) \subseteq Addressed(i)

\* C3: with exactly 1, 2, 3 registered and nobody's connection reset, the
\* broadcast of the hello<EOF> that 1's handler read ends without error, 2 and
\* 3 were each sent the frame "<addr of 1>: hello<EOF>" once and nothing else,
\* and 1 was sent nothing.
C3_Scenario ==
    \A i \in Tasks :
        ( /\ bc[i].sender = 1
          /\ bc[i].message = Hello \o EOF
          /\ bc[i].reg = <<1, 2, 3>>
          /\ \A c \in {1, 2, 3} : peer[c] # "rst" )
        => /\ bc[i].pc = "done"
           /\ sent[2] = <<HelloFrame>>
           /\ sent[3] = <<HelloFrame>>
           /\ sent[1] = <<>>

C3_Witness ==
    \E i \in Tasks :
        /\ bc[i].sender = 1
        /\ bc[i].message = Hello \o EOF
        /\ bc[i].reg = <<1, 2, 3>>
        /\ \A c \in {1, 2, 3} : peer[c] = "up"
        /\ sent[2] = <<HelloFrame>>
        /\ sent[3] = <<HelloFrame>>

\* C4 (as claimed): a broadcast in which a sendall failed does not abort, and
\* once it has ended it has called sendall for every other member of its
\* snapshot and the recipient that failed is out of the registry.
C4_DisconnectIsolation ==
    \A i \in Tasks :
        \A j \in 1..Len(bc[i].log) :
            bc[i].log[j].res \in {"fail", "ebadf"} =>
                /\ bc[i].pc # "aborted"
                /\ bc[i].pc = "done" =>
                     /\ (Members(bc[i].snap) \ {bc[i].sender}) \subseteq Addressed(i)
                     /\ bc[i].log[j].to \notin Members(clients)

\* C5 (as claimed): of two messages of one sender, the one its handler read
\* first is received first by every connection that receives both.
C5_PerSenderOrder ==
    \A i, j \in Tasks :
        (i < j /\ bc[i].sender = bc[j].sender) =>
            \A r \in Conns :
                \A p \in Received(r, Frame(bc[i].sender, bc[i].message)) :
                    \A q \in Received(r, Frame(bc[j].sender, bc[j].message)) :
                        p < q

\* C6 (as claimed): a connection is in the registry exactly when its handler
\* task runs its loop and has not seen the disconnection.
C6_RegistryInvariant ==
    \A c \in Conns : (c \in Members(clients)) <=> (hpc[c] = "loop")

\* C7 (as claimed): no broadcast calls sendall on a socket the server closed.
C7_NoSendOnClosedSocket ==
    \A i \in Tasks :
        \A j \in 1..Len(bc[i].log) : bc[i].log[j].res # "ebadf"

\* C8: a socket the server closed is not in the registry.
C8_RemoveBeforeRelease ==
    \A c \in Conns : sock[c] = "closed" => c \notin Members(clients)

\* A teardown closed a socket while other connections are registered.
C8_Witness ==
    \E c \in Conns : sock[c] = "closed" /\ hpc[c] = "done" /\ clients # <<>>

\* C9 (as claimed): a handler task that saw the disconnection and has ended
\* left its connection out of the registry and its socket closed.
C9_TeardownCompletes ==
    \A c \in Conns :
        hpc[c] \in {"done", "ValueError"} =>
            sock[c] = "closed" /\ c \notin Members(clients)

\* C10 (as claimed): no removal from the registry raises: neither a handler's
\* teardown nor a broadcast's failure path ends in ValueError.
C10_RemoveIdempotent ==
    /\ \A c \in Conns : hpc[c] # "ValueError"
    /\ \A i \in Tasks : bc[i].err # "ValueError"

\* C11 (as claimed): a broadcast that ended does not leave a recipient whose
\* sendall would have blocked both without the message and in service: the
\* task sent the recipient the message on a later turn, or the recipient is
\* no longer registered and open.
C11_BlockedSendRetriedOrTornDown ==
    \A i \in Tasks :
        bc[i].pc = "done" =>
            \A j \in 1..Len(bc[i].log) :
                bc[i].log[j].res = "block" =>
                    \/ \E k \in (j + 1)..Len(bc[i].log) :
                           /\ bc[i].log[k].to = bc[i].log[j].to
                           /\ bc[i].log[k].res = "ok"
                    \/ bc[i].log[j].to \notin Members(clients)
                    \/ sock[bc[i].log[j].to] = "closed"

\* C12 (as claimed): the acceptor is accepting, and scheduled, in every state.
C12_AcceptorNeverStops ==
    /\ mainpc = "run"
    /\ InList(ready, MainTask)

\* C13: the first step of a broadcast that finds nothing registered but its
\* origin, or nothing at all, ends the task without an error, calls sendall
\* on nothing and leaves the registry and every socket as they were.
C13_NoRecipientNoOp ==
    [][\A i \in Tasks :
          (/\ bc[i].pc = "new"
           /\ bc'[i].pc # "new"
           /\ Members(clients) \subseteq {bc[i].sender})
          => /\ bc'[i].pc = "done"
             /\ bc'[i].err = "none"
             /\ bc'[i].log = <<>>
             /\ clients' = clients
             /\ sent' = sent
             /\ sndfree' = sndfree
             /\ sock' = sock]_vars

\* A broadcast has run with its origin as the only registered connection.
C13_Witness ==
    \E i \in Tasks :
        /\ bc[i].pc = "done"
        /\ bc[i].reg = <<bc[i].sender>>

\* The number of delimiters in a byte string.
CountEOF(data) ==
    Cardinality({p \in 1..Len(data) :
                   /\ p + Len(EOF) - 1 <= Len(data)
                   /\ SubSeq(data, p, p + Len(EOF) - 1) = EOF})

\* C14 (as claimed): every delimited message handed to the broadcaster is one
\* frame: N frames read at once are N messages, so none holds two delimiters.
C14_OneMessagePerFrame ==
    \A i \in Tasks :
        endswith(bc[i].message, EOF) => CountEOF(bc[i].message) = 1

\* The bytes of a sequence of byte strings, in order.
RECURSIVE Concat(_)
Concat(segs) ==
    IF segs = <<>> THEN <<>> ELSE Head(segs) \o Concat(Tail(segs))

\* The messages, in order, the handler of connection c handed to the
\* broadcaster.
Handed(c) ==
    LET from == SelectSeq(bc, LAMBDA b : b.sender = c)
    IN  [j \in 1..Len(from) |-> from[j].message]

IsPrefix(s, t) == Len(s) <= Len(t) /\ SubSeq(t, 1, Len(s)) = s

\* C15 (as claimed): no byte is lost between reads: the messages a handler
\* handed over are, joined in order, the head of what its peer sent, however
\* the bytes were cut into chunks and whatever would-block came between them.
C15_NoBytesLostBetweenReads ==
    \A c \in Conns : IsPrefix(Concat(Handed(c)), Concat(world.script[c]))

\* prefix + b": " + payload + b"<EOF>", the delimiter at the end and nowhere
\* else.
CompleteFrame(bytes) ==
    /\ \E c \in Conns :
           IsPrefix(AddrBytes(getpeername(c)) \o <<":", " ">>, bytes)
    /\ endswith(bytes, EOF)
    /\ CountEOF(bytes) = 1

\* C16 (as claimed): every byte string a broadcast passes to sendall is one
\* complete frame.
C16_OnlyCompleteFramesSent ==
    \A i \in Tasks : bc[i].log # <<>> => CompleteFrame(bc[i].frame)

\* C17: a recv that would block makes readAll return (None, True); a step of
\* the handler whose peer has neither closed nor reset leaves the handler in
\* its loop and the connection registered; and a handler leaves its loop only
\* when its peer has closed (recv returned b'') or reset (recv raised).
C17_WouldBlockIsNotDisconnect ==
    [][\A c \in Conns :
          /\ LET r == readAll(wire[c], <<>>, 0, "up")
             IN  r.none /\ r.conn /\ r.rest = wire[c]
          /\ (/\ ready # <<>> /\ Head(ready) = HandlerTask(c)
              /\ ready' # ready
              /\ hpc[c] \in {"new", "loop"}
              /\ peer[c] = "up")
             => /\ hpc'[c] = "loop"
                /\ c \in Members(clients')
                /\ sock'[c] = "open"
          /\ (hpc[c] \in {"new", "loop"} /\ hpc'[c] = "closing")
             => peer[c] \in {"fin", "rst"}]_vars

\* A handler whose peer sends nothing and stays connected has taken steps,
\* each a would-block, and is looping and registered.
C17_Witness ==
    \E c \in Conns :
        /\ world.script[c] = <<>>
        /\ peer[c] = "up"
        /\ hpc[c] = "loop"
        /\ c \in Members(clients)
        /\ \E d \in Conns : hpc[d] = "done"

\* The handler tasks that are scheduled.
Scheduled == {c \in Conns : InList(ready, HandlerTask(c))}

\* The registry without the connections in X, order kept.
Without(list, X) == SelectSeq(list, LAMBDA x : x \notin X)

\* C18: the teardown of X's handler, also one that ends in the unhandled
\* ValueError, removes and closes X only, and a step of a broadcast removes
\* only recipients whose sendall failed in that step and closes nothing;
\* every other connection keeps its place in the registry, its socket state
\* and its handler task, and the other broadcast tasks are as they were.
C18_FailureTouchesOnlyItsConnection ==
    [][/\ \A X \in Conns :
            (hpc[X] = "closing" /\ hpc'[X] # "closing")
            => /\ Without(clients', {X}) = Without(clients, {X})
               /\ \A d \in Conns \ {X} :
                      /\ sock'[d] = sock[d]
                      /\ hpc'[d] = hpc[d]
                      /\ (d \in Scheduled') = (d \in Scheduled)
               /\ bc' = bc
       /\ \A i \in Tasks :
            (ready # <<>> /\ Head(ready) = BroadcastTask(i) /\ ready' # ready)
            => LET failed == {bc'[i].log[j].to :
                                j \in {k \in (Len(bc[i].log) + 1)..Len(bc'[i].log) :
                                         bc'[i].log[k].res \in {"fail", "ebadf"}}}
               IN  /\ \E X \in SUBSET failed : clients' = Without(clients, X)
                   /\ sock' = sock
                   /\ hpc' = hpc
                   /\ Scheduled' = Scheduled
                   /\ \A k \in Tasks \ {i} : bc'[k] = bc[k]]_vars

\* A broadcast's failure path has removed a connection while another stayed
\* registered, and a handler's teardown has ended in the ValueError.
C18_Witness ==
    /\ \E i \in Tasks : \E j \in 1..Len(bc[i].log) :
           /\ bc[i].log[j].res \in {"fail", "ebadf"}
           /\ bc[i].log[j].to \notin Members(clients)
    /\ \E X \in Conns : hpc[X] = "ValueError"
    /\ \E d \in Conns : d \in Members(clients) /\ sock[d] = "open" /\ hpc[d] = "loop"

\* C19: the registry never holds the same connection twice.
C19_NoDuplicateRegistration ==
    \A p, q \in 1..Len(clients) : p # q => clients[p] # clients[q]

\* Connections were registered, one was removed again, and two are
\* registered.
C19_Witness ==
    /\ Len(clients) >= 2
    /\ \E c \in Conns : hpc[c] \in {"done", "ValueError"}

\* C20: a broadcast task that has not taken its first step, in which it
\* calls sender.getpeername(), has a sender whose socket the server has not
\* closed.
C20_PrefixBeforeClose ==
    \A i \in Tasks : bc[i].pc = "new" => sock[bc[i].sender] # "closed"

\* A broadcast of the undelimited bytes readAll returned together with the
\* disconnect built its frame, and its sender's handler has closed the socket
\* since.
C20_Witness ==
    \E i \in Tasks :
        /\ ~endswith(bc[i].message, EOF)
        /\ bc[i].frame # <<>>
        /\ sock[bc[i].sender] = "closed"

====
